---------------------------- MODULE Spec2Model ----------------------------
(***************************************************************************)
(* Readability mode of the Markdown editor (source/common/modules/         *)
(* markdown-editor): the score normaliser zTransform, the four readability *)
(* algorithms, the sentence extractor extractScores, the recompute entry   *)
(* point readabilityScores with its view plugin, and the parts of the      *)
(* MarkdownEditor class that keep the editor configuration.                *)
(*                                                                         *)
(* Strings are sequences of one-character strings.  Positions are 0-based  *)
(* as in JavaScript; charAt(s, i) is the character at position i.          *)
(* JavaScript numbers are modelled by exact rationals (integer numerator   *)
(* over a stated denominator); NaN is modelled explicitly.                 *)
(***************************************************************************)
EXTENDS Integers, Sequences, FiniteSets, TLC

-----------------------------------------------------------------------------
(* String primitives of the JavaScript runtime.                            *)

Min(a, b) == IF a <= b THEN a ELSE b

Max(a, b) == IF a >= b THEN a ELSE b

\* String.prototype.charAt: the empty string outside the string.
charAt(s, i) == IF i >= 0 /\ i < Len(s) THEN s[i + 1] ELSE ""

\* String.prototype.substring(from, to) for 0 <= from <= to <= length.
substring(s, from, to) == SubSeq(s, from + 1, to)

\* The regular expression class \s (the members a document can hold here).
WhiteSpace == {" ", "\t", "\n", "\r", "\f"}

\* The line terminators that ^ and $ recognise under the m flag.
LineTerminator == {"\n", "\r"}

\* ^ under the m flag: at the start of the input or after a line terminator.
AtLineStart(s, p) == p = 0 \/ charAt(s, p - 1) \in LineTerminator

\* $ under the m flag: at the end of the input or before a line terminator.
AtLineEnd(s, p) == p = Len(s) \/ charAt(s, p) \in LineTerminator

\* Whether the n characters from position p all belong to class.
AllIn(s, p, n, class) ==
    /\ p + n <= Len(s)
    /\ \A i \in p .. (p + n - 1) : s[i + 1] \in class

\* The length of the longest run of characters of class that starts at p.
RECURSIVE Run(_, _, _)
Run(s, p, class) ==
    IF p < Len(s) /\ s[p + 1] \in class THEN 1 + Run(s, p + 1, class) ELSE 0

\* The greatest member of a non-empty set of integers.
Greatest(S) == CHOOSE x \in S : \A y \in S : y <= x

\* The least member of a non-empty set of integers.
Least(S) == CHOOSE x \in S : \A y \in S : x <= y

\* F applied to value, with value computed once.
With(value, F(_)) == CHOOSE r \in {F(v) : v \in {value}} : TRUE

\* String.prototype.indexOf(needle, from): the first position >= from at
\* which needle occurs, -1 if there is none; from is clamped to the string.
indexOf(s, needle, from) ==
    LET start == Min(Max(from, 0), Len(s))
        hits == {k \in start .. (Len(s) - Len(needle)) :
                    substring(s, k, k + Len(needle)) = needle}
    IN  IF hits = {} THEN -1 ELSE Least(hits)

\* String.prototype.includes for a one-character or empty needle: every
\* string includes the empty string.
includes(s, needle) ==
    needle = "" \/ \E i \in 1 .. Len(s) : s[i] = needle

\* String.prototype.trim.
RECURSIVE trimEnd(_)
trimEnd(s) ==
    IF Len(s) > 0 /\ s[Len(s)] \in WhiteSpace
    THEN trimEnd(SubSeq(s, 1, Len(s) - 1)) ELSE s

trim(s) == LET lead == Run(s, 0, WhiteSpace)
           IN  trimEnd(substring(s, lead, Len(s)))

\* String.prototype.split(' '): the pieces between single spaces.
RECURSIVE splitSpaceFrom(_, _, _)
splitSpaceFrom(s, p, start) ==
    IF p >= Len(s) THEN << substring(s, start, Len(s)) >>
    ELSE IF s[p + 1] = " "
         THEN << substring(s, start, p) >> \o splitSpaceFrom(s, p + 1, p + 1)
         ELSE splitSpaceFrom(s, p + 1, start)

splitSpace(s) == splitSpaceFrom(s, 0, 0)

-----------------------------------------------------------------------------
(* extractScores: the block-level regular expressions.  Each operator      *)
(* gives the end of the expression's match at position p, -1 without a     *)
(* match, following the matcher's order of attempts (greedy quantifiers    *)
(* longest first, lazy ones shortest first).                               *)

\* The backtick character.  A TLA+ string cannot hold it, so this one
\* character is written as the one-element value "<backtick>".
BACKTICK == "<backtick>"

Backtick == {BACKTICK}

\* The closing fence ^`{1,3}$ at q: its length (longest first), 0 if none.
FenceClose(s, q) ==
    LET lens == {b \in 1 .. 3 : AllIn(s, q, b, Backtick) /\ AtLineEnd(s, q + b)}
    IN  IF AtLineStart(s, q) /\ lens # {} THEN Greatest(lens) ELSE 0

\* /^`{1,3}.+?^`{1,3}$/gsm at p: a fenced code block.
FencedCodeEnd(s, p) ==
    LET cands == {c \in (1 .. 3) \X (1 .. Len(s)) :
                     /\ AllIn(s, p, c[1], Backtick)
                     /\ p + c[1] + c[2] <= Len(s)
                     /\ FenceClose(s, p + c[1] + c[2]) > 0}
    IN  IF ~AtLineStart(s, p) \/ cands = {} THEN -1
        ELSE LET a == Greatest({c[1] : c \in cands})
                 m == Least({c[2] : c \in {d \in cands : d[1] = a}})
             IN  p + a + m + FenceClose(s, p + a + m)

\* The closing line ^(?:-{3}|\.{3})$ of a frontmatter block at q.
FrontmatterClose(s, q) ==
    /\ AtLineStart(s, q)
    /\ (AllIn(s, q, 3, {"-"}) \/ AllIn(s, q, 3, {"."}))
    /\ AtLineEnd(s, q + 3)

\* /^-{3}.+?^(?:-{3}|\.{3})$/gsm at p: a frontmatter block.
FrontmatterEnd(s, p) ==
    LET ms == {m \in 1 .. Len(s) :
                  p + 3 + m <= Len(s) /\ FrontmatterClose(s, p + 3 + m)}
    IN  IF ~AtLineStart(s, p) \/ ~AllIn(s, p, 3, {"-"}) \/ ms = {} THEN -1
        ELSE p + 3 + Least(ms) + 3

\* /^#{1,6}\s+/gm at p: the marker of an ATX heading.
HeadingMarkEnd(s, p) ==
    LET as == {a \in 1 .. 6 :
                  AllIn(s, p, a, {"#"}) /\ Run(s, p + a, WhiteSpace) >= 1}
    IN  IF ~AtLineStart(s, p) \/ as = {} THEN -1
        ELSE LET a == Greatest(as) IN p + a + Run(s, p + a, WhiteSpace)

\* /^\s*[-+*]\s\[[x\s]\]\s/gmi at p: the marker of a checkbox list item.
CheckboxMarkEnd(s, p) ==
    LET ks == {k \in 0 .. Run(s, p, WhiteSpace) :
                  /\ charAt(s, p + k) \in {"-", "+", "*"}
                  /\ charAt(s, p + k + 1) \in WhiteSpace
                  /\ charAt(s, p + k + 2) = "["
                  /\ charAt(s, p + k + 3) \in {"x", "X"} \cup WhiteSpace
                  /\ charAt(s, p + k + 4) = "]"
                  /\ charAt(s, p + k + 5) \in WhiteSpace}
    IN  IF ~AtLineStart(s, p) \/ ks = {} THEN -1
        ELSE p + Greatest(ks) + 6

-----------------------------------------------------------------------------
(* extractScores: the inline replacements made on the copy of a sentence   *)
(* that is tokenised.                                                      *)

EmphasisMark == {"*", "_"}

\* /[*_]{1,3}[^_*]+[_*]{1,3}/g at p: an emphasised span, markers and text.
EmphasisEnd(s, p) ==
    LET cands == {c \in (1 .. 3) \X (1 .. Len(s)) \X (1 .. 3) :
                     /\ AllIn(s, p, c[1], EmphasisMark)
                     /\ p + c[1] + c[2] <= Len(s)
                     /\ \A i \in (p + c[1]) .. (p + c[1] + c[2] - 1) :
                            s[i + 1] \notin EmphasisMark
                     /\ AllIn(s, p + c[1] + c[2], c[3], EmphasisMark)}
    IN  IF charAt(s, p) \notin EmphasisMark \/ cands = {} THEN -1
        ELSE LET a == Greatest({c[1] : c \in cands})
                 n == Greatest({c[2] : c \in {d \in cands : d[1] = a}})
                 b == Greatest({c[3] : c \in {d \in cands :
                                                 d[1] = a /\ d[2] = n}})
             IN  p + a + n + b

\* /\[\[[^\]]+\[\[/g at p: two opening brackets, text, two opening brackets.
WikiLinkEnd(s, p) ==
    LET ns == {n \in 1 .. Len(s) :
                  /\ p + 2 + n + 2 <= Len(s)
                  /\ \A i \in (p + 2) .. (p + 2 + n - 1) : s[i + 1] # "]"
                  /\ AllIn(s, p + 2 + n, 2, {"["})}
    IN  IF ~AllIn(s, p, 2, {"["}) \/ ns = {} THEN -1
        ELSE p + 2 + Greatest(ns) + 2

\* \[([^\]]+)\]\([^)]+\) at p: the end of the match and of its group 1
\* (the link text), << -1, -1 >> without a match.
LinkMatch(s, p) ==
    LET cands == {c \in (1 .. Len(s)) \X (1 .. Len(s)) :
                     /\ p + 1 + c[1] + 2 + c[2] + 1 <= Len(s)
                     /\ \A i \in (p + 1) .. (p + c[1]) : s[i + 1] # "]"
                     /\ charAt(s, p + 1 + c[1]) = "]"
                     /\ charAt(s, p + 2 + c[1]) = "("
                     /\ \A i \in (p + 3 + c[1]) .. (p + 2 + c[1] + c[2]) :
                            s[i + 1] # ")"
                     /\ charAt(s, p + 3 + c[1] + c[2]) = ")"}
    IN  IF charAt(s, p) # "[" \/ cands = {} THEN << -1, -1 >>
        ELSE LET n == Greatest({c[1] : c \in cands})
                 m == Greatest({c[2] : c \in {d \in cands : d[1] = n}})
             IN  << p + 1 + n + 2 + m + 1, p + 1 + n >>

\* /\[([^\]]+)\]\([^)]+\)/g at p: a link.
LinkEnd(s, p) == LinkMatch(s, p)[1]

\* /!\[[^\]]+\]\([^)]+\)/g at p: an image.
ImageEnd(s, p) == IF charAt(s, p) = "!" THEN LinkEnd(s, p + 1) ELSE -1

\* /\[[^[\]]*@[^[\]]+\]/ at p: a citation.
CitationEnd(s, p) ==
    LET cands == {c \in (0 .. Len(s)) \X (1 .. Len(s)) :
                     /\ p + 1 + c[1] + 1 + c[2] + 1 <= Len(s)
                     /\ \A i \in (p + 1) .. (p + c[1]) :
                            s[i + 1] \notin {"[", "]"}
                     /\ charAt(s, p + 1 + c[1]) = "@"
                     /\ \A i \in (p + 2 + c[1]) .. (p + 1 + c[1] + c[2]) :
                            s[i + 1] \notin {"[", "]"}
                     /\ charAt(s, p + 2 + c[1] + c[2]) = "]"}
    IN  IF charAt(s, p) # "[" \/ cands = {} THEN -1
        ELSE LET k == Greatest({c[1] : c \in cands})
                 m == Greatest({c[2] : c \in {d \in cands : d[1] = k}})
             IN  p + 1 + k + 1 + m + 1

\* The end of regex's match at position p of s, -1 without a match.
MatchEnd(regex, s, p) ==
    CASE regex = "fencedCode" -> FencedCodeEnd(s, p)
      [] regex = "frontmatter" -> FrontmatterEnd(s, p)
      [] regex = "headingMark" -> HeadingMarkEnd(s, p)
      [] regex = "checkboxMark" -> CheckboxMarkEnd(s, p)
      [] regex = "emphasis" -> EmphasisEnd(s, p)
      [] regex = "wikiLink" -> WikiLinkEnd(s, p)
      [] regex = "image" -> ImageEnd(s, p)
      [] regex = "link" -> LinkEnd(s, p)
      [] regex = "citation" -> CitationEnd(s, p)

\* What the match at p is replaced by: a link by its text ('$1'),
\* everything else by the empty string.
Replacement(regex, s, p) ==
    IF regex = "link" THEN substring(s, p + 1, LinkMatch(s, p)[2]) ELSE << >>

\* String.prototype.replace(regex with the g flag, ...) from position p on:
\* matches are taken leftmost first and the scan resumes at the end of
\* each match (all matches here are non-empty).
RECURSIVE ReplaceFrom(_, _, _)
ReplaceFrom(s, regex, p) ==
    IF p >= Len(s) THEN << >>
    ELSE With(MatchEnd(regex, s, p), LAMBDA end :
             IF end > p
             THEN Replacement(regex, s, p) \o ReplaceFrom(s, regex, end)
             ELSE << s[p + 1] >> \o ReplaceFrom(s, regex, p + 1))

replaceAll(s, regex) == ReplaceFrom(s, regex, 0)

\* String.prototype.replace(regex without the g flag, ''): only the
\* leftmost match is removed.
removeFirst(s, regex) ==
    With({p \in 0 .. Len(s) : MatchEnd(regex, s, p) > p}, LAMBDA hits :
        IF hits = {} THEN s
        ELSE With(Least(hits), LAMBDA p :
                 substring(s, 0, p)
                     \o substring(s, MatchEnd(regex, s, p), Len(s))))

\* The four block-level replacements, in the order of the source.
stripBlocks(text) ==
    With(replaceAll(text, "fencedCode"), LAMBDA t1 :
    With(replaceAll(t1, "frontmatter"), LAMBDA t2 :
    With(replaceAll(t2, "headingMark"), LAMBDA t3 :
         replaceAll(t3, "checkboxMark"))))

\* The five inline replacements, in the order of the source.
stripInline(sentence) ==
    With(replaceAll(sentence, "emphasis"), LAMBDA s1 :
    With(replaceAll(s1, "wikiLink"), LAMBDA s2 :
    With(replaceAll(s2, "image"), LAMBDA s3 :
    With(replaceAll(s3, "link"), LAMBDA s4 :
         removeFirst(s4, "citation")))))

SentenceEnders == {".", ":", "!", "?"}

\* /[.:!?]\s+|\n/ig at p: a sentence delimiter.
DelimiterEnd(s, p) ==
    IF charAt(s, p) \in SentenceEnders /\ Run(s, p + 1, WhiteSpace) >= 1
    THEN p + 1 + Run(s, p + 1, WhiteSpace)
    ELSE IF charAt(s, p) = "\n" THEN p + 1 ELSE -1

\* String.prototype.split(regex): the pieces between the matches, the
\* piece after the last match included.
RECURSIVE splitFrom(_, _, _)
splitFrom(s, p, start) ==
    IF p >= Len(s) THEN << substring(s, start, Len(s)) >>
    ELSE With(DelimiterEnd(s, p), LAMBDA end :
             IF end > p
             THEN << substring(s, start, p) >> \o splitFrom(s, end, end)
             ELSE splitFrom(s, p + 1, start))

splitSentences(s) == splitFrom(s, 0, 0)

-----------------------------------------------------------------------------
(* Numbers.  A JavaScript number is an exact rational << num, den >> with  *)
(* den > 0, or NaN.  A result that may be NaN is a record: Number(v) for   *)
(* the integer v, NaN otherwise.                                           *)

Number(v) == [nan |-> FALSE, val |-> v]

NaN == [nan |-> TRUE, val |-> 0]

\* floor(a / b) for b > 0.
FloorDiv(a, b) == a \div b

\* Math.floor of the rational a / b, b > 0.
MathFloor(a, b) == FloorDiv(a, b)

MathCeilRoundsDown(a, b) ==
    \* rounded towards minus infinity, as Math.floor does
    FloorDiv(a, b)

\* Math.ceil of the rational a / b, b > 0.
MathCeil(a, b) == -FloorDiv(-a, b)

\* Math.round of the rational a / b, b > 0: the nearest integer, a half
\* rounded up.
MathRound(a, b) == FloorDiv(2 * a + b, 2 * b)

\* zTransform(val, sourceMin, sourceMax, targetMin, targetMax) for the
\* rational val = << num, den >> and integer limits, sourceMin < sourceMax.
zTransformLoose(val, sourceMin, sourceMax, targetMin, targetMax) ==
    LET sourceRange == sourceMax - sourceMin
        targetRange == targetMax - targetMin
    IN  \* the percentage is not rounded to two digits before rescaling
        MathRound(targetMin * val[2] * sourceRange
                      + (val[1] - sourceMin * val[2]) * targetRange,
                  val[2] * sourceRange)

zTransform(val, sourceMin, sourceMax, targetMin, targetMax) ==
    LET sourceRange == sourceMax - sourceMin
        targetRange == targetMax - targetMin
        \* percentage = Math.round((val - sourceMin) / sourceRange * 100) / 100,
        \* kept as the integer percentage * 100
        percentage100 == MathRound(100 * (val[1] - sourceMin * val[2]),
                                   val[2] * sourceRange)
    IN  \* targetVal = targetMin + percentage * targetRange, then rounded
        MathRound(100 * targetMin + percentage100 * targetRange, 100)

-----------------------------------------------------------------------------
(* readabilityAlgorithms.  A word is a string; only its length is read.    *)

RECURSIVE joinLength(_)
\* words.join('').length
joinLength(words) ==
    IF words = << >> THEN 0 ELSE Len(Head(words)) + joinLength(Tail(words))

RECURSIVE SumOfSquares(_, _, _)
\* sos += Math.pow(word.length - mean, 2) over the words, times n * n
\* (mean = total / n, so each term is ((n * length - total) / n) ^ 2).
SumOfSquares(words, total, n) ==
    IF words = << >> THEN 0
    ELSE (n * Len(Head(words)) - total) * (n * Len(Head(words)) - total)
             + SumOfSquares(Tail(words), total, n)

\* word.length > wordThreshold, where wordThreshold = mean + 2 * std and
\* std = Math.sqrt(sos / (words.length - 1)).  For one word the quotient is
\* 0 / 0, so std and the threshold are NaN and the comparison is false.
\* Otherwise length > mean + 2 * std iff length > mean and
\* (length - mean)^2 > 4 * sos / (n - 1), stated on integers.
ExceedsThresholdAlways(length, words) ==
    LET n == Len(words)
        total == joinLength(words)
        dev == n * length - total
    IN  \* a NaN threshold is not told apart
        IF n = 1 THEN TRUE
        ELSE dev > 0 /\ dev * dev * (n - 1) > 4 * SumOfSquares(words, total, n)

ExceedsThresholdOneDeviation(length, words) ==
    LET n == Len(words)
        total == joinLength(words)
        dev == n * length - total
    IN  \* the threshold is mean + 1 * std
        IF n = 1 THEN FALSE
        ELSE dev > 0 /\ dev * dev * (n - 1) > SumOfSquares(words, total, n)

ExceedsThreshold(length, words) ==
    LET n == Len(words)
        total == joinLength(words)
        dev == n * length - total
    IN  IF n = 1 THEN FALSE
        ELSE dev > 0 /\ dev * dev * (n - 1) > 4 * SumOfSquares(words, total, n)

\* for (let word of words) if (word.length > wordThreshold) difficultWords++
difficultWords(words) ==
    Cardinality({i \in 1 .. Len(words) : ExceedsThreshold(Len(words[i]), words)})

ClampLowerOnly(val, max) ==
    \* the upper limit is not applied
    IF val[1] < 0 THEN << 0, 1 >> ELSE val

\* if (score < 0) score = 0; if (score > max) score = max, on a rational.
Clamp(val, max) ==
    IF val[1] < 0 THEN << 0, 1 >>
    ELSE IF val[1] > max * val[2] THEN << max, 1 >>
    ELSE val

\* An empty word list makes words.length 0: the mean, the percentage and
\* every score derived from them are NaN, which no comparison changes and
\* which Math.floor, Math.ceil and Math.round hand on.

\* score = 0.1579 * percentageOfDifficultWords * 100 + 0.0496 * totalSize,
\* plus 3.6365 if percentageOfDifficultWords > 0.05, as a rational over
\* 10000 * totalSize.
daleChallRaw(words) ==
    LET totalSize == Len(words)
        difficult == difficultWords(words)
    IN  << 157900 * difficult + 496 * totalSize * totalSize
               + (IF 100 * difficult > 5 * totalSize
                  THEN 36365 * totalSize ELSE 0),
           10000 * totalSize >>

daleChall(words) ==
    IF Len(words) = 0 THEN NaN
    ELSE LET raw == daleChallRaw(words)
             floored == MathFloor(raw[1], raw[2])
             score == IF floored < 0 THEN 0
                      ELSE IF floored > 9 THEN 10 ELSE floored
         IN  Number(zTransform(<< score, 1 >>, 0, 10, 0, 10))

\* score = 0.4 * (words.length + 100 * difficultWords / words.length), as a
\* rational over 10 * words.length.
gunningFogRaw(words) ==
    << 4 * Len(words) * Len(words) + 400 * difficultWords(words),
       10 * Len(words) >>

gunningFog(words) ==
    IF Len(words) = 0 THEN NaN
    ELSE Number(zTransform(Clamp(gunningFogRaw(words), 20), 0, 20, 0, 10))

\* score = 5.89 * mean - 0.3 / (100 * words.length) - 15.8, as a rational
\* over 1000 * words.length.
colemanLiauRaw(words) ==
    << 5890 * joinLength(words) - 3 - 15800 * Len(words), 1000 * Len(words) >>

colemanLiau(words) ==
    IF Len(words) = 0 THEN NaN
    ELSE Number(zTransform(Clamp(colemanLiauRaw(words), 30), 0, 30, 0, 10))

\* score = 4.71 * mean + 0.5 * words.length - 21.43, as a rational over
\* 100 * words.length.
automatedReadabilityRaw(words) ==
    << 471 * joinLength(words) + 50 * Len(words) * Len(words)
           - 2143 * Len(words),
       100 * Len(words) >>

automatedReadability(words) ==
    IF Len(words) = 0 THEN NaN
    ELSE LET raw == automatedReadabilityRaw(words)
             score == MathCeil(raw[1], raw[2])
         IN  Number(zTransform(Clamp(<< score, 1 >>, 50), 0, 50, 0, 10))

Algorithms ==
    {"dale-chall", "gunning-fog", "coleman-liau", "automated-readability"}

\* readabilityAlgorithms[algorithm](words)
readabilityAlgorithms(algorithm, words) ==
    CASE algorithm = "dale-chall" -> daleChall(words)
      [] algorithm = "gunning-fog" -> gunningFog(words)
      [] algorithm = "coleman-liau" -> colemanLiau(words)
      [] algorithm = "automated-readability" -> automatedReadability(words)

-----------------------------------------------------------------------------
(* extractScores(text, offset, algorithm).                                 *)

\* The styles scoreDecorations holds: one per index 0 .. 10.
ScoreIndices == 0 .. 10

RECURSIVE mapRanges(_, _, _, _, _)
\* .map(sentence => ...) with its captured lastSeenIndex, from the i-th
\* split sentence on: for every sentence its range in text, the sentence as
\* split (raw) and its copy without inline Markdown (sentence).
mapRanges(text, sentences, i, lastSeenIndex, offset) ==
    IF i > Len(sentences) THEN << >>
    ELSE With(indexOf(text, sentences[i], lastSeenIndex), LAMBDA idx :
         With(idx + Len(sentences[i]), LAMBDA newLastSeenIndex :
             << [from |-> offset + idx,
                 to |-> offset + (IF includes(<< ".", ":", "!", "?" >>,
                                              charAt(text, newLastSeenIndex))
                                  THEN newLastSeenIndex + 1
                                  ELSE newLastSeenIndex),
                 raw |-> sentences[i],
                 sentence |-> stripInline(sentences[i])] >>
                 \o mapRanges(text, sentences, i + 1, newLastSeenIndex, offset)))

\* .filter(word => word !== '')
nonEmptyWords(words) == SelectSeq(words, LAMBDA word : word # << >>)

\* The stages of extractScores up to the scores: block markup removed, the
\* text split, the ranges retrieved, too short sentences removed, the rest
\* tokenised and scored.  Each entry keeps the words that were scored.
scoredSentences(text, offset, algorithm) ==
    With(splitSentences(stripBlocks(text)), LAMBDA sentences :
    With(mapRanges(text, sentences, 1, 0, offset), LAMBDA ranges :
    With(SelectSeq(ranges, LAMBDA v : Len(v.sentence) >= 2), LAMBDA kept :
        [i \in 1 .. Len(kept) |->
            With(nonEmptyWords(splitSpace(trim(kept[i].sentence))),
                 LAMBDA words :
                    [from |-> kept[i].from, to |-> kept[i].to,
                     raw |-> kept[i].raw, words |-> words,
                     score |-> readabilityAlgorithms(algorithm, words)])])))

\* Whether scoreDecorations[score] is a style: otherwise the lookup gives
\* undefined and the call of its range method raises a TypeError.
hasDecoration(score) == ~score.nan /\ score.val \in ScoreIndices

\* extractScores: the decorations, or the exception the last stage raises.
\* sentences is the stage before it, kept for inspection.
extractScores(text, offset, algorithm) ==
    With(scoredSentences(text, offset, algorithm), LAMBDA scored :
    With(\E i \in 1 .. Len(scored) : ~hasDecoration(scored[i].score),
         LAMBDA raised :
            [threw |-> raised,
             decos |-> IF raised THEN << >>
                       ELSE [i \in 1 .. Len(scored) |->
                                [from |-> scored[i].from, to |-> scored[i].to,
                                 score |-> scored[i].score.val]],
             sentences |-> scored]))

-----------------------------------------------------------------------------
(* State.  The editor: the cached configuration (this.config), the state   *)
(* of the view (this._instance.state), the swapDoc calls waiting for       *)
(* fetchDoc, the visible ranges of the view, the decorations of the        *)
(* readability plugin and the last run of readabilityScores.  The calls of *)
(* the pure functions: call and returned.  The application a command runs  *)
(* in (app) and the run of the command (command).                          *)

VARIABLES config, state, fetching, visibleRanges, decorations, recompute,
          call, returned, app, command

editorVars ==
    << config, state, fetching, visibleRanges, decorations, recompute >>

callVars == << call, returned >>

commandVars == << app, command >>

vars == << config, state, fetching, visibleRanges, decorations, recompute,
           call, returned, app, command >>

\* No application around the editor, and no command running.
NoApp == [dirs |-> {}, leaves |-> << >>]

NoCommand == [pc |-> "idle"]

CommandIdle == app = NoApp /\ command = NoCommand

-----------------------------------------------------------------------------
(* readabilityScores and the view plugin.                                  *)

\* view.state.sliceDoc(from, to)
sliceDoc(doc, from, to) == substring(doc, from, to)

RECURSIVE concatScores(_, _, _, _, _)
\* for (const { from, to } of view.visibleRanges) decos = decos.concat(...)
\* from the i-th visible range on.  extracted counts the calls of
\* extractScores; an exception of extractScores ends the loop.
concatScores(doc, algorithm, ranges, i, acc) ==
    IF i > Len(ranges) THEN acc
    ELSE With(extractScores(sliceDoc(doc, ranges[i][1], ranges[i][2]),
                            ranges[i][1], algorithm),
              LAMBDA scores :
                 IF scores.threw
                 THEN [threw |-> TRUE, decos |-> << >>,
                       extracted |-> acc.extracted + 1]
                 ELSE concatScores(doc, algorithm, ranges, i + 1,
                                   [threw |-> FALSE,
                                    decos |-> acc.decos \o scores.decos,
                                    extracted |-> acc.extracted + 1]))

\* Decoration.none, with no call of extractScores made.
DecorationNone == [threw |-> FALSE, decos |-> << >>, extracted |-> 0]

readabilityScoresUnguarded(viewState, ranges) ==
    \* the mode is not looked at
    concatScores(viewState.doc, viewState.config.readabilityAlgorithm,
                 ranges, 1, DecorationNone)

\* readabilityScores(view): view.state is viewState, view.visibleRanges is
\* ranges.
readabilityScores(viewState, ranges) ==
    IF ~viewState.config.readabilityMode THEN DecorationNone
    ELSE concatScores(viewState.doc, viewState.config.readabilityAlgorithm,
                      ranges, 1, DecorationNone)

\* No run of readabilityScores yet.
NoRecompute ==
    [called |-> FALSE, readabilityMode |-> FALSE, threw |-> FALSE,
     decos |-> << >>, extracted |-> 0]

\* The plugin's update(update): this.decorations = readabilityScores(view).
\* An exception leaves update before the assignment, so the decorations
\* held before (previous) stay.
PluginUpdate(previous, viewState, ranges) ==
    \E scores \in {readabilityScores(viewState, ranges)} :
        /\ recompute' = [called |-> TRUE,
                         readabilityMode |-> viewState.config.readabilityMode,
                         threw |-> scores.threw, decos |-> scores.decos,
                         extracted |-> scores.extracted]
        /\ decorations' = IF scores.threw THEN previous ELSE scores.decos

-----------------------------------------------------------------------------
(* MarkdownEditor.  The documents are Markdown documents, whose extensions *)
(* hold the configuration field and the readability plugin.                *)

\* The paths the document authority knows.
Paths == {"a.md", "b.md"}

\* fetchDoc(path): the content the document authority holds.
DocumentContent(path) ==
    IF path = "a.md"
    THEN << "G", "o", ".", " ", "G", "o", ".", "\n", "*", "a", "*", " ", "b", "c" >>
    ELSE << "d", "a", "y", "!", "\n", " ", " ", "\n", "O", "k" >>

\* The values of the option readabilityAlgorithm that are set here.
EditorAlgorithms == {"dale-chall", "coleman-liau"}

\* The options of EditorConfiguration that the readability mode reads, and
\* metadata.path.
Configs ==
    [readabilityMode : BOOLEAN, readabilityAlgorithm : EditorAlgorithms,
     metadata : [path : Paths \cup {""}]]

\* The options setOptions can be handed: any subset of the options.
NewOptions ==
    {[k \in {} |-> TRUE]}
        \cup [readabilityMode : BOOLEAN]
        \cup [readabilityAlgorithm : EditorAlgorithms]
        \cup [readabilityMode : BOOLEAN, readabilityAlgorithm : EditorAlgorithms]

\* safeAssign(newOptions, config): config with the options that newOptions
\* names taken from it.
safeAssign(newOptions, oldConfig) ==
    [oldConfig EXCEPT
        !.readabilityMode =
            IF "readabilityMode" \in DOMAIN newOptions
            THEN newOptions.readabilityMode ELSE @,
        !.readabilityAlgorithm =
            IF "readabilityAlgorithm" \in DOMAIN newOptions
            THEN newOptions.readabilityAlgorithm ELSE @]

\* The field configField of a state made without extensions: there is none.
NoConfig ==
    [readabilityMode |-> FALSE, readabilityAlgorithm |-> "",
     metadata |-> [path |-> ""]]

\* EditorState.create(): no document, no extensions.
EmptyState == [loaded |-> FALSE, doc |-> << >>, filePath |-> "", config |-> NoConfig]

\* The positions at which a line of doc starts, and its end.
LineStarts(doc) ==
    {0, Len(doc)} \cup {p \in 1 .. Len(doc) : doc[p] = "\n"}

\* A view shows up to MaxRegions regions.
MaxRegions == 2

\* view.visibleRanges: non-empty ranges of whole lines, in the order of the
\* document, none reaching into the next.
VisibleRanges(doc) ==
    LET ranges == {r \in LineStarts(doc) \X LineStarts(doc) : r[1] < r[2]}
    IN  UNION {{rs \in [1 .. n -> ranges] :
                   \A i \in 1 .. (n - 1) : rs[i][2] <= rs[i + 1][1]} :
               n \in 1 .. MaxRegions}

NoCall == [fn |-> "none"]

Pending == [done |-> FALSE]

Returned(value) == [done |-> TRUE, value |-> value]

\* The constructor: the default configuration (any), a view without state.
Init ==
    /\ config \in {c \in Configs : c.metadata.path = ""}
    /\ state = EmptyState
    /\ fetching = {}
    /\ visibleRanges = << >>
    /\ decorations = << >>
    /\ recompute = NoRecompute
    /\ call = NoCall
    /\ returned = Pending
    /\ CommandIdle

\* swapDoc(documentPath) up to its await: the path is cached, the document
\* is requested.  (One request per path is in flight at a time.)
SwapDocStart(documentPath) ==
    /\ call = NoCall
    /\ documentPath \notin fetching
    /\ config' = [config EXCEPT !.metadata.path = documentPath]
    /\ fetching' = fetching \cup {documentPath}
    /\ UNCHANGED << state, visibleRanges, decorations, recompute, callVars,
                    commandVars >>

\* swapDoc(documentPath) from the resolution of fetchDoc on: a new state
\* with the document and a copy of the cached configuration
\* (_getExtensions) is set, which constructs the plugin anew (no
\* decorations), and the dispatches that follow update the plugin.
SwapDocResolve(documentPath) ==
    /\ call = NoCall
    /\ documentPath \in fetching
    /\ fetching' = fetching \ {documentPath}
    /\ state' = [loaded |-> TRUE, doc |-> DocumentContent(documentPath),
                 filePath |-> documentPath, config |-> config]
    /\ visibleRanges' \in VisibleRanges(DocumentContent(documentPath))
    /\ PluginUpdate(<< >>, state', visibleRanges')
    /\ UNCHANGED << config, callVars, commandVars >>

\* reload()
Reload ==
    /\ config.metadata.path \in Paths
    /\ SwapDocStart(config.metadata.path)

\* emptyEditor(): a state without extensions, so without the plugin.
EmptyEditor ==
    /\ call = NoCall
    /\ state' = EmptyState
    /\ visibleRanges' = << >>
    /\ decorations' = << >>
    /\ UNCHANGED << config, fetching, recompute, callVars, commandVars >>

\* setOptions(newOptions): the cached configuration is merged; the
\* transaction made by state.update(...) is not dispatched, so the state of
\* the view stays; reconfigureRenderers dispatches, which updates the plugin.
SetOptions(newOptions) ==
    /\ call = NoCall
    /\ config' = safeAssign(newOptions, config)
    /\ IF state.loaded
       THEN PluginUpdate(decorations, state, visibleRanges)
       ELSE UNCHANGED << decorations, recompute >>
    /\ UNCHANGED << state, fetching, visibleRanges, callVars, commandVars >>

\* set readabilityMode(shouldBeReadability): the cached configuration is
\* changed and dispatched to the state, which updates the plugin.
SetReadabilityMode(shouldBeReadability) ==
    /\ call = NoCall
    /\ config' = [config EXCEPT !.readabilityMode = shouldBeReadability]
    /\ IF state.loaded
       THEN /\ state' = [state EXCEPT !.config = config']
            /\ PluginUpdate(decorations, state', visibleRanges)
       ELSE UNCHANGED << state, decorations, recompute >>
    /\ UNCHANGED << fetching, visibleRanges, callVars, commandVars >>

\* getOption(name): read from the state of the view.
getOption(name) ==
    IF name = "readabilityMode" THEN state.config.readabilityMode
    ELSE state.config.readabilityAlgorithm

\* A view update that the editor does not start (the viewport moves): the
\* plugin is updated.
ViewUpdate ==
    /\ call = NoCall
    /\ state.loaded
    /\ visibleRanges' \in VisibleRanges(state.doc)
    /\ PluginUpdate(decorations, state, visibleRanges')
    /\ UNCHANGED << config, state, fetching, callVars, commandVars >>

Next ==
    \/ \E documentPath \in Paths : SwapDocStart(documentPath)
    \/ \E documentPath \in Paths : SwapDocResolve(documentPath)
    \/ Reload
    \/ EmptyEditor
    \/ \E newOptions \in NewOptions : SetOptions(newOptions)
    \/ \E shouldBeReadability \in BOOLEAN :
           SetReadabilityMode(shouldBeReadability)
    \/ ViewUpdate

Spec == Init /\ [][Next]_vars

\* The editor as constructed, left alone while a pure function is called.
EditorIdle ==
    /\ config = [readabilityMode |-> FALSE, readabilityAlgorithm |-> "dale-chall",
                 metadata |-> [path |-> ""]]
    /\ state = EmptyState
    /\ fetching = {}
    /\ visibleRanges = << >>
    /\ decorations = << >>
    /\ recompute = NoRecompute

-----------------------------------------------------------------------------
(* Calls of the pure functions.  call is a call of zTransform, of a        *)
(* readability algorithm or of extractScores with its arguments; returned  *)
(* is its result once the function has run.                                *)

\* --- zTransform ---

\* Source and target limits are drawn from -1 .. MaxLimit.
MaxLimit == 3

\* val is drawn in steps of 1 / ValueDenominator.
ValueDenominator == 4

\* The (sourceMin, sourceMax) pairs of the four algorithms.
AlgorithmRanges == {<< 0, 10 >>, << 0, 20 >>, << 0, 30 >>, << 0, 50 >>}

SourceRanges ==
    {r \in (-1 .. MaxLimit) \X (-1 .. MaxLimit) : r[1] < r[2]}
        \cup AlgorithmRanges

\* The default target range and small ones.
TargetRanges ==
    {r \in (-1 .. MaxLimit) \X (-1 .. MaxLimit) : r[1] <= r[2]}
        \cup {<< 0, 10 >>}

\* Dale-Chall and the automated readability index hand zTransform a
\* floored or raised score: an integer.
IntegerRanges == {<< 0, 10 >>, << 0, 50 >>}

ZTransformCalls ==
    {[fn |-> "zTransform", val |-> << num, ValueDenominator >>,
      sourceMin |-> s[1], sourceMax |-> s[2],
      targetMin |-> t[1], targetMax |-> t[2]] :
        num \in (-1 - ValueDenominator) * ValueDenominator
                    .. (50 + 1) * ValueDenominator,
        s \in SourceRanges, t \in TargetRanges}

InitNormalizer ==
    /\ EditorIdle
    /\ CommandIdle
    /\ call \in {c \in ZTransformCalls :
                    /\ c.val[1] >= (c.sourceMin - 1) * ValueDenominator
                    /\ c.val[1] <= (c.sourceMax + 1) * ValueDenominator
                    /\ \/ << c.sourceMin, c.sourceMax >> \notin IntegerRanges
                       \/ c.val[1] % ValueDenominator = 0}
    /\ returned = Pending

RunZTransform ==
    /\ call.fn = "zTransform"
    /\ ~returned.done
    /\ returned' = Returned(zTransform(call.val, call.sourceMin, call.sourceMax,
                                       call.targetMin, call.targetMax))
    /\ UNCHANGED << call, editorVars, commandVars >>

\* --- readabilityAlgorithms ---

\* A word of the given length.
Word(length) == [i \in 1 .. length |-> "a"]

\* count copies of word.
Repeat(word, count) == [i \in 1 .. count |-> word]

\* Every word list of up to MaxWords words of up to MaxWordLength letters.
MaxWords == 5

MaxWordLength == 3

RECURSIVE ListsOfLength(_)
ListsOfLength(n) ==
    IF n = 0 THEN {<< >>}
    ELSE {<< Word(l) >> \o rest :
            l \in 1 .. MaxWordLength, rest \in ListsOfLength(n - 1)}

ShortLists == UNION {ListsOfLength(n) : n \in 0 .. MaxWords}

\* Short words followed by a few long ones: sentences of up to six words
\* with a word far longer than the rest, and long sentences, in which
\* words are difficult and raw scores pass the upper limits.
LongLists ==
    {Repeat(Word(short), many) \o Repeat(Word(long), few) :
        short \in {1, 2}, many \in {0, 1, 2, 3, 4, 5, 6, 29, 49, 64},
        long \in {8, 16, 20}, few \in {1, 2, 7}}

WordLists == ShortLists \cup LongLists

InitAlgorithms ==
    /\ EditorIdle
    /\ CommandIdle
    /\ call \in {[fn |-> "algorithm", algorithm |-> a, words |-> w] :
                    a \in Algorithms, w \in WordLists}
    /\ returned = Pending

RunAlgorithm ==
    /\ call.fn = "algorithm"
    /\ ~returned.done
    /\ returned' = Returned(readabilityAlgorithms(call.algorithm, call.words))
    /\ UNCHANGED << call, editorVars, commandVars >>

\* --- extractScores ---

\* The lines a region is made of.
Lines ==
    {
      << "G", "o", ".", " ", "G", "o", ".", " ", "G", "o", "." >>,
      << "*", "h", "e", "l", "l", "o", "*", " ", "w", "o", "r", "l", "d" >>,
      << " ", " " >>,
      << BACKTICK, ".", "a", ".", "a" >>,
      << BACKTICK >>,
      << ".", "a", ".", " ", ".", "a" >>,
      << "#", " ", "G", "o", "!" >>,
      << "-", " ", "[", "x", "]", " ", "G", "o", "?" >>,
      << "-", "-", "-" >>
    }

\* A region holds up to MaxLines lines.
MaxLines == 3

RECURSIVE TextsOfLines(_)
TextsOfLines(n) ==
    IF n = 1 THEN Lines
    ELSE {line \o << "\n" >> \o rest : line \in Lines, rest \in TextsOfLines(n - 1)}

Texts == UNION {TextsOfLines(n) : n \in 1 .. MaxLines}

\* The offsets of a region in its document.
Offsets == {0, 7}

InitExtractor ==
    /\ EditorIdle
    /\ CommandIdle
    /\ call \in {[fn |-> "extractScores", text |-> t, offset |-> o,
                  algorithm |-> a] :
                    t \in Texts, o \in Offsets, a \in Algorithms}
    /\ returned = Pending

RunExtractScores ==
    /\ call.fn = "extractScores"
    /\ ~returned.done
    /\ returned' = Returned(extractScores(call.text, call.offset, call.algorithm))
    /\ UNCHANGED << call, editorVars, commandVars >>

\* --- readabilityScores ---

\* The documents a view shows: those of the document authority and one
\* that begins with a fenced code block.
ViewDocuments ==
    {DocumentContent(path) : path \in Paths}
        \cup {<< BACKTICK, ".", "a", ".", "a", "\n", BACKTICK, "\n",
                 ".", "a", ".", " ", ".", "a" >>}

\* The states of a view: a document and the configuration field.
ViewStates ==
    {[loaded |-> TRUE, doc |-> doc, filePath |-> "",
      config |-> [readabilityMode |-> mode, readabilityAlgorithm |-> a,
                  metadata |-> [path |-> ""]]] :
        doc \in ViewDocuments, mode \in BOOLEAN, a \in Algorithms}

InitRecompute ==
    /\ EditorIdle
    /\ CommandIdle
    /\ \E viewState \in ViewStates :
           call \in {[fn |-> "readabilityScores", state |-> viewState,
                      ranges |-> ranges] :
                        ranges \in VisibleRanges(viewState.doc)}
    /\ returned = Pending

RunReadabilityScores ==
    /\ call.fn = "readabilityScores"
    /\ ~returned.done
    /\ returned' = Returned(readabilityScores(call.state, call.ranges))
    /\ UNCHANGED << call, editorVars, commandVars >>

SpecRecompute == InitRecompute /\ [][RunReadabilityScores]_vars

SpecNormalizer == InitNormalizer /\ [][RunZTransform]_vars

SpecAlgorithms == InitAlgorithms /\ [][RunAlgorithm]_vars

SpecExtractor == InitExtractor /\ [][RunExtractScores]_vars

-----------------------------------------------------------------------------
(* The command DirRename.  app is what the command reaches through         *)
(* this._app: the directories the FSAL knows (fsal) and, for every leaf of *)
(* the document manager, the open files of its tab manager in the order of *)
(* their tabs.  command is the run: its position, its locals, the calls of *)
(* closeFile and renameDir it made and its result.  A path is the sequence *)
(* of its characters.                                                      *)

\* String.prototype.startsWith
startsWith(s, prefix) ==
    Len(prefix) <= Len(s) /\ SubSeq(s, 1, Len(prefix)) = prefix

\* The directories of the workspace: d, its sibling dx and e.
Directories == {<< "/", "d" >>, << "/", "d", "x" >>, << "/", "e" >>}

\* The files that can be open, in the order of their tabs: two in d (one
\* of them in a subdirectory), one in dx and one in e.
Files ==
    << << "/", "d", "/", "a" >>,
       << "/", "d", "/", "s", "/", "b" >>,
       << "/", "d", "x", "/", "c" >>,
       << "/", "e", "/", "f" >> >>

\* arg.path: a directory of the workspace or one that the FSAL does not know.
ArgPaths == Directories \cup {<< "/", "m" >>}

\* The tabs of a leaf: any of the files.
OpenFiles ==
    {SelectSeq(Files, LAMBDA doc : doc \in open) :
        open \in SUBSET {Files[i] : i \in 1 .. Len(Files)}}

\* The document manager has up to MaxLeaves leaves.
MaxLeaves == 2

Apps ==
    UNION {[dirs : {Directories}, leaves : [1 .. n -> OpenFiles]] :
              n \in 1 .. MaxLeaves}

\* this._app.fsal.findDir(arg.path): the directory, if the FSAL knows it.
findDir(path) == IF path \in app.dirs THEN << path >> ELSE << >>

\* Line 40: the open files of a leaf the command closes.
openFilesToClose(tabs, sourceDir) ==
    SelectSeq(tabs, LAMBDA doc : startsWith(doc, sourceDir))

closeFileNotedLast(acc, leaf, doc, closed) ==
    \* the flag is the outcome of the call made last
    [allFilesClosedSuccessfully |-> closed,
     hasChanged |-> acc.hasChanged \/ closed,
     closeFileCalls |-> Append(acc.closeFileCalls,
                               [leaf |-> leaf, path |-> doc, result |-> closed])]

\* The body of the loop over openFiles: tabMan.closeFile(doc.path) returned
\* closed.
closeFileNoted(acc, leaf, doc, closed) ==
    [allFilesClosedSuccessfully |->
         IF ~closed THEN FALSE ELSE acc.allFilesClosedSuccessfully,
     hasChanged |-> IF ~closed THEN acc.hasChanged ELSE TRUE,
     closeFileCalls |-> Append(acc.closeFileCalls,
                               [leaf |-> leaf, path |-> doc, result |-> closed])]

RECURSIVE closeOpenFiles(_, _, _, _, _)
\* for (const doc of openFiles) from the i-th file on, where results[i] is
\* what closeFile returns for it.
closeOpenFiles(openFiles, results, leaf, i, acc) ==
    IF i > Len(openFiles) THEN acc
    ELSE closeOpenFiles(openFiles, results, leaf, i + 1,
                        closeFileNoted(acc, leaf, openFiles[i], results[i]))

InitDirRename ==
    /\ EditorIdle
    /\ call = NoCall
    /\ returned = Pending
    /\ app \in Apps
    /\ command = NoCommand

\* run(evt, arg) up to its first await: the directory is looked up; if it
\* is not found, run returns false.
DirRenameRun(path) ==
    /\ command.pc = "idle"
    /\ command' =
           [pc |-> IF findDir(path) = << >> THEN "done" ELSE "forEachLeaf",
            path |-> path,
            found |-> findDir(path) # << >>,
            opened |-> app.leaves,
            leaf |-> 1,
            allFilesClosedSuccessfully |-> TRUE,
            closeFileCalls |-> << >>,
            renameDir |-> "none",
            result |-> FALSE]
    /\ UNCHANGED << app, editorVars, callVars >>

\* The callback of forEachLeaf for the next leaf: every open file whose
\* path starts with the path of the directory is closed, which the tab
\* manager does (the file leaves the open files) or refuses.
LeafCallback ==
    /\ command.pc = "forEachLeaf"
    /\ command.leaf <= Len(app.leaves)
    /\ LET leaf == command.leaf
           openFiles == openFilesToClose(app.leaves[leaf], command.path)
       IN  \E results \in [1 .. Len(openFiles) -> BOOLEAN] :
               LET after == closeOpenFiles(openFiles, results, leaf, 1,
                                [allFilesClosedSuccessfully |->
                                     command.allFilesClosedSuccessfully,
                                 hasChanged |-> FALSE,
                                 closeFileCalls |-> command.closeFileCalls])
                   closed == {openFiles[i] : i \in {j \in 1 .. Len(openFiles) :
                                                       results[j]}}
               IN  /\ command' =
                          [command EXCEPT
                              !.leaf = leaf + 1,
                              !.allFilesClosedSuccessfully =
                                  after.allFilesClosedSuccessfully,
                              !.closeFileCalls = after.closeFileCalls]
                   /\ app' = [app EXCEPT
                                 !.leaves[leaf] =
                                     SelectSeq(@, LAMBDA doc : doc \notin closed)]
    /\ UNCHANGED << editorVars, callVars >>

\* run after forEachLeaf: if a file could not be closed run returns false,
\* otherwise fsal.renameDir is called.
CallRenameDir ==
    /\ command.pc = "forEachLeaf"
    /\ command.leaf > Len(app.leaves)
    /\ command' =
           IF ~command.allFilesClosedSuccessfully
           THEN [command EXCEPT !.pc = "done", !.result = FALSE]
           ELSE [command EXCEPT !.pc = "renameDir", !.renameDir = "called"]
    /\ UNCHANGED << app, editorVars, callVars >>

\* fsal.renameDir(sourceDir, sanitizedName) settles: the directory is
\* renamed (the new name is not looked at here) and run returns true, or
\* renameDir throws and run returns false.
RenameDirSettles ==
    /\ command.pc = "renameDir"
    /\ \/ /\ command' = [command EXCEPT !.pc = "done", !.renameDir = "completed",
                                        !.result = TRUE]
          /\ app' = [app EXCEPT !.dirs = (@ \ {command.path}) \cup {<< "/", "n" >>}]
       \/ /\ command' = [command EXCEPT !.pc = "done", !.renameDir = "threw",
                                        !.result = FALSE]
          /\ app' = app
    /\ UNCHANGED << editorVars, callVars >>

NextDirRename ==
    \/ \E path \in ArgPaths : DirRenameRun(path)
    \/ LeafCallback
    \/ CallRenameDir
    \/ RenameDirSettles

SpecDirRename == InitDirRename /\ [][NextDirRename]_vars

-----------------------------------------------------------------------------

(* Properties of extractScores, checked under SpecExtractor.               *)

ExtractorReturned == call.fn = "extractScores" /\ returned.done

\* extractScores returned its decorations: sentences holds, in the same
\* order, the sentence behind each.
ExtractorEmitted == ExtractorReturned /\ ~returned.value.threw

\* C1: the ranges that extractScores emits for a region each have
\* from < to, are sorted ascending by from and do not overlap, also when
\* block-level markup was stripped from the text before splitting.
RangeIntegrity ==
    ExtractorReturned =>
        LET decos == returned.value.decos
        IN  /\ \A i \in 1 .. Len(decos) : decos[i].from < decos[i].to
            /\ \A i \in 1 .. (Len(decos) - 1) :
                   /\ decos[i].from <= decos[i + 1].from
                   /\ decos[i].to <= decos[i + 1].from

\* C2: every sentence that passes the length filter gets a score that is an
\* integer in 0 .. 10, whatever the algorithm, so the lookup of the style is
\* defined and extractScores does not raise.
ScoresAreStyles ==
    ExtractorReturned =>
        /\ ~returned.value.threw
        /\ \A i \in 1 .. Len(returned.value.sentences) :
               LET score == returned.value.sentences[i].score
               IN  ~score.nan /\ score.val \in 0 .. 10

\* C3: the ranges of sentences with the same text are pairwise distinct,
\* strictly increasing in from and non-overlapping, each lying on an
\* occurrence of the sentence behind the range before it.
RepeatedSentencesDistinct ==
    ExtractorEmitted =>
        LET sentences == returned.value.sentences
        IN  \A i, j \in 1 .. Len(sentences) :
                i < j /\ sentences[i].raw = sentences[j].raw =>
                    /\ sentences[i].from < sentences[j].from
                    /\ sentences[i].to <= sentences[j].from
                    /\ substring(call.text, sentences[j].from - call.offset,
                                 sentences[j].from - call.offset
                                     + Len(sentences[j].raw))
                           = sentences[j].raw

\* The sentence without its emphasis markers.
WithoutEmphasisMarks(sentence) ==
    SelectSeq(sentence, LAMBDA c : c \notin EmphasisMark)

\* C4: the range of a sentence spans the original text with its markup,
\* while the words scored are those of the sentence with only the emphasis
\* markers removed: emphasised words still count.  (No sentence of the
\* texts here holds other inline markup.)
EmphasisedWordsCounted ==
    ExtractorEmitted =>
        \A i \in 1 .. Len(returned.value.sentences) :
            LET v == returned.value.sentences[i]
            IN  /\ substring(call.text, v.from - call.offset,
                             v.from - call.offset + Len(v.raw)) = v.raw
                /\ v.words = nonEmptyWords(splitSpace(trim(
                                 WithoutEmphasisMarks(v.raw))))

\* C10: a range ends at the end of its sentence, extended by one character
\* exactly if the text has a next character there and it is one of . : ! ?;
\* so every range lies within the region.
RangeWithinText ==
    ExtractorEmitted =>
        \A i \in 1 .. Len(returned.value.sentences) :
            LET v == returned.value.sentences[i]
                end == v.from - call.offset + Len(v.raw)
                extended == end < Len(call.text)
                                /\ call.text[end + 1] \in SentenceEnders
            IN  /\ v.to - call.offset = (IF extended THEN end + 1 ELSE end)
                /\ call.offset <= v.from
                /\ v.to <= call.offset + Len(call.text)

RECURSIVE MatchedFrom(_, _, _)
\* The positions of s that the matches of regex cover, from p on, taken as
\* replaceAll takes them.
MatchedFrom(s, regex, p) ==
    IF p >= Len(s) THEN {}
    ELSE With(MatchEnd(regex, s, p), LAMBDA end :
             IF end > p
             THEN (p .. (end - 1)) \cup MatchedFrom(s, regex, end)
             ELSE MatchedFrom(s, regex, p + 1))

\* The positions of text that are removed as a fenced code block or, in a
\* text without fenced code blocks, as a frontmatter block.
StrippedPositions(text) ==
    With(MatchedFrom(text, "fencedCode", 0), LAMBDA fenced :
        IF fenced # {} THEN fenced ELSE MatchedFrom(text, "frontmatter", 0))

\* C12: no range that extractScores emits holds a position of the text
\* that was removed as a fenced code block or a frontmatter block: every
\* sentence is found at its place outside the removed blocks.
StrippedBlocksUnannotated ==
    ExtractorEmitted =>
        \A i \in 1 .. Len(returned.value.decos) :
            LET deco == returned.value.decos[i]
            IN  \A p \in StrippedPositions(call.text) :
                    ~(deco.from - call.offset <= p /\ p < deco.to - call.offset)

\* The candidates of a call: the split sentences with their ranges, before
\* the length filter.
Candidates ==
    mapRanges(call.text, splitSentences(stripBlocks(call.text)), 1, 0,
              call.offset)

\* from, to and raw of each entry of a sequence of sentences.
Located(sentences) ==
    [i \in 1 .. Len(sentences) |->
        [from |-> sentences[i].from, to |-> sentences[i].to,
         raw |-> sentences[i].raw]]

\* C13: the sentences handed to the algorithm are, in order, exactly the
\* candidates whose text without inline Markdown, trimmed, has at least 2
\* characters; each of them gets one range and no other candidate gets one.
TrimmedLengthFilter ==
    ExtractorReturned =>
        /\ Located(returned.value.sentences)
               = Located(SelectSeq(Candidates,
                                   LAMBDA v : Len(trim(v.sentence)) >= 2))
        /\ Len(returned.value.decos) = Len(returned.value.sentences)

-----------------------------------------------------------------------------
(* Properties of the algorithms, checked under SpecAlgorithms.             *)

AlgorithmReturned == call.fn = "algorithm" /\ returned.done

\* C6: for a list of one word every algorithm returns an integer in
\* 0 .. 10 and the word is not difficult: Dale-Chall and Gunning-Fog, whose
\* scores a difficult word would raise to 10, return 0.
SingleWordNotDifficult ==
    AlgorithmReturned /\ Len(call.words) = 1 =>
        /\ ~returned.value.nan
        /\ returned.value.val \in 0 .. 10
        /\ difficultWords(call.words) = 0
        /\ call.algorithm \in {"dale-chall", "gunning-fog"} =>
               returned.value.val = 0

\* A one-word list was scored by Dale-Chall.
SingleWordScored ==
    /\ AlgorithmReturned
    /\ call.algorithm = "dale-chall"
    /\ call.words = << Word(3) >>

\* The score of an algorithm before Math.floor, Math.ceil and the limits,
\* and the upper limit of the algorithm.
Unclamped(algorithm, words) ==
    CASE algorithm = "dale-chall" -> daleChallRaw(words)
      [] algorithm = "gunning-fog" -> gunningFogRaw(words)
      [] algorithm = "coleman-liau" -> colemanLiauRaw(words)
      [] algorithm = "automated-readability" -> automatedReadabilityRaw(words)

UpperLimit(algorithm) ==
    CASE algorithm = "dale-chall" -> 10
      [] algorithm = "gunning-fog" -> 20
      [] algorithm = "coleman-liau" -> 30
      [] algorithm = "automated-readability" -> 50

-----------------------------------------------------------------------------
(* Properties of zTransform, checked under SpecNormalizer.                 *)

NormalizerReturned == call.fn = "zTransform" /\ returned.done

\* n is the rational a / b (b > 0) rounded to the nearest integer, a half
\* rounded up.
IsRounded(n, a, b) == 2 * b * n - b <= 2 * a /\ 2 * a < 2 * b * n + b

-----------------------------------------------------------------------------
(* Properties of the editor, checked under Spec.                           *)

\* C5: a run of readabilityScores that finds the readability mode off
\* returns no decorations, whatever the visible ranges and the algorithm,
\* without a call of extractScores (so it cannot raise), and the plugin
\* then holds no decorations.
DisabledModeIsEmpty ==
    recompute.called /\ ~recompute.readabilityMode =>
        /\ recompute.decos = << >>
        /\ ~recompute.threw
        /\ recompute.extracted = 0
        /\ decorations = << >>

\* With the mode off the plugin was updated on visible ranges for which
\* the extractor would have given decorations.
DisabledModeRecomputed ==
    /\ recompute.called
    /\ ~recompute.readabilityMode
    /\ state.loaded
    /\ ~state.config.readabilityMode
    /\ readabilityScoresUnguarded(state, visibleRanges).decos # << >>

\* C9: with no swapDoc in progress, the configuration in the state of the
\* view (what getOption and the plugin read) equals the cached
\* configuration, after any setOptions, readabilityMode setter and swapDoc.
StateConfigMatchesCache ==
    state.loaded /\ fetching = {} =>
        /\ state.config = config
        /\ getOption("readabilityMode") = config.readabilityMode
        /\ getOption("readabilityAlgorithm") = config.readabilityAlgorithm

-----------------------------------------------------------------------------
(* Properties of readabilityScores, checked under SpecRecompute.           *)

RecomputeReturned == call.fn = "readabilityScores" /\ returned.done

-----------------------------------------------------------------------------
(* Properties of the plugin, checked under Spec.                           *)

\* C14: after every update of the view, the decorations the plugin holds
\* are those readabilityScores computes for the visible ranges and the
\* configuration of the view as they are now, whatever it held before:
\* none with the mode off, the freshly computed ones with it on.
DecorationsAreRecomputed ==
    state.loaded =>
        decorations = readabilityScores(state, visibleRanges).decos

-----------------------------------------------------------------------------
(* The formulas of the algorithms, checked under SpecAlgorithms.           *)

RECURSIVE SumOfPowers(_, _)
\* The sum of the word lengths (power = 1) or of their squares (power = 2).
SumOfPowers(words, power) ==
    IF words = << >> THEN 0
    ELSE (IF power = 1 THEN Len(Head(words))
          ELSE Len(Head(words)) * Len(Head(words)))
             + SumOfPowers(Tail(words), power)

\* length > mean + 2 * sqrt(sumSq / (n - 1)) for a list of n >= 2 words,
\* with sumSq = (sum of squares) - (sum)^2 / n: both sides times n, the
\* root removed by squaring.
LongerThanTwoDeviations(length, words) ==
    LET n == Len(words)
        sum == SumOfPowers(words, 1)
        squares == SumOfPowers(words, 2)
    IN  /\ n * length > sum
        /\ (n * length - sum) * (n * length - sum) * (n - 1)
               > 4 * (n * n * squares - n * sum * sum)

\* score is what zTransform(val, 0, max) gives for the rational val in
\* 0 .. max: the percentage rounded to two digits, times 10, rounded.
NormalisedFrom(score, val, max) ==
    \E percentage \in 0 .. 100 :
        /\ IsRounded(percentage, 100 * val[1], max * val[2])
        /\ IsRounded(score, 10 * percentage, 100)

\* val is the rational raw brought into 0 .. max.
ClampedFrom(val, raw, max) ==
    \/ raw[1] < 0 /\ val = << 0, 1 >>
    \/ raw[1] > max * raw[2] /\ val = << max, 1 >>
    \/ 0 <= raw[1] /\ raw[1] <= max * raw[2] /\ val = raw

-----------------------------------------------------------------------------
(* Properties of swapDoc, checked under Spec.                              *)

\* C19: once every swapDoc that was started has completed, the document in
\* the state of the view is the one that config.metadata.path names, in
\* whatever order the calls of fetchDoc resolved.
DocumentMatchesCachedPath ==
    state.loaded /\ fetching = {} =>
        /\ state.filePath = config.metadata.path
        /\ state.doc = DocumentContent(config.metadata.path)

-----------------------------------------------------------------------------
(* Properties of DirRename, checked under SpecDirRename.                   *)

DirRenameReturned == command.pc = "done"

\* The calls of closeFile made so far, and whether one of them failed.
CloseFileCalls ==
    IF command.pc = "idle" THEN {}
    ELSE {command.closeFileCalls[i] : i \in 1 .. Len(command.closeFileCalls)}

\* C16: renameDir is called only if the directory was found and closeFile
\* was called on every affected open file of every leaf and returned true
\* each time; if the directory is not found run returns false and no file
\* is closed; if a call of closeFile returned false run returns false and
\* renameDir is not called; run returns true only if renameDir completed.
RenameOnlyAfterAllClosed ==
    command.pc # "idle" =>
        /\ command.renameDir # "none" =>
               /\ command.found
               /\ \A c \in CloseFileCalls : c.result
               /\ \A leaf \in 1 .. Len(command.opened) :
                      \A i \in 1 .. Len(command.opened[leaf]) :
                          startsWith(command.opened[leaf][i], command.path) =>
                              [leaf |-> leaf, path |-> command.opened[leaf][i],
                               result |-> TRUE] \in CloseFileCalls
        /\ ~command.found =>
               /\ DirRenameReturned /\ ~command.result
               /\ CloseFileCalls = {}
               /\ app.leaves = command.opened
        /\ DirRenameReturned /\ (\E c \in CloseFileCalls : ~c.result) =>
               ~command.result /\ command.renameDir = "none"
        /\ DirRenameReturned /\ command.result =>
               command.renameDir = "completed"

\* run returned true after closing files in two leaves, of which the first
\* had two open files in the directory.
RenamedAfterClosing ==
    /\ DirRenameReturned
    /\ command.result
    /\ command.renameDir = "completed"
    /\ Len(command.closeFileCalls) = 3
    /\ command.closeFileCalls[2].leaf = 1
    /\ command.closeFileCalls[3].leaf = 2

\* path lies within the directory dir, at any depth.
InsideDirectory(path, dir) == startsWith(path, dir \o << "/" >>)

\* C17: closeFile is called only for open files within the directory to be
\* renamed; every other open file, also one in a sibling directory whose
\* path starts with the characters of the directory's path, stays open.
ClosesOnlyFilesInside ==
    command.pc # "idle" =>
        /\ \A c \in CloseFileCalls : InsideDirectory(c.path, command.path)
        /\ \A leaf \in 1 .. Len(command.opened) :
               \A i \in 1 .. Len(command.opened[leaf]) :
                   LET doc == command.opened[leaf][i]
                   IN  ~InsideDirectory(doc, command.path) =>
                           \E j \in 1 .. Len(app.leaves[leaf]) :
                               app.leaves[leaf][j] = doc

=============================================================================
